---- MODULE Spec2Model ----
(***************************************************************************)
(* biofeed.py: decoding of Polar H10 BLE notifications (GATT Heart Rate    *)
(* Measurement, PMD ECG frames, PMD feature response) and their            *)
(* re-encoding as OSC int32 messages sent over UDP.                        *)
(*                                                                         *)
(* Byte buffers are sequences of 0..255.  Python strings are sequences of  *)
(* code points.  Python slices are 0-based and clipped to the buffer.      *)
(***************************************************************************)
EXTENDS Integers, Sequences, FiniteSets

VARIABLES
    ecg_session_data,   \* module-level list of decoded ECG samples
    ecg_session_time,   \* module-level list of frame timestamps, one per sample
    osc_sent,           \* datagrams handed to osc_udp_socket.sendto, in order
    delivered,          \* number of notifications the BLE client has delivered
    pc,                 \* where info() stands
    call,               \* the last call made: function, arguments, raised or not
    result              \* the object the last call built or returned

vars == <<ecg_session_data, ecg_session_time, osc_sent, delivered, pc, call, result>>

----------------------------------------------------------------------------
(* Bounds of the model *)

MaxNotifications == 2
MaxRR == 2
MaxSamples == 2
MaxStrLen == 5
MaxSent == 1

----------------------------------------------------------------------------
(* Python primitives *)

Min(a, b) == IF a < b THEN a ELSE b

\* data[lo:hi] for 0 <= lo, clipped to the buffer like a Python slice
Slice(data, lo, hi) == SubSeq(data, lo + 1, Min(hi, Len(data)))

\* data[lo:]
SliceFrom(data, lo) == SubSeq(data, lo + 1, Len(data))

RECURSIVE Pow256(_)
Pow256(n) == IF n = 0 THEN 1 ELSE 256 * Pow256(n - 1)

\* int.from_bytes(b, 'little', signed=False) for buffers of at most 3 bytes
RECURSIVE FromBytesLittle(_)
FromBytesLittle(b) ==
    IF b = <<>> THEN 0 ELSE Head(b) + 256 * FromBytesLittle(Tail(b))

\* int.from_bytes(b, 'little', signed=True) for buffers of at most 3 bytes:
\* two's complement over exactly the bytes given; the empty buffer is 0
FromBytesLittleSigned(b) ==
    LET u == FromBytesLittle(b)
        n == Len(b)
    IN  IF n > 0 /\ u >= Pow256(n) \div 2 THEN u - Pow256(n) ELSE u

\* The byte at 1-based position i of b, 0 past its end
ByteOrZero(b, i) == IF i <= Len(b) THEN b[i] ELSE 0

\* int.from_bytes(b, 'little', signed=False) for buffers of at most 8 bytes.
\* A Python int is unbounded; the 64-bit value is kept as its four base-65536
\* digits, least significant first, each digit within TLC's integer range.
FromBytesLittleWide(b) ==
    [k \in 1..4 |-> ByteOrZero(b, 2 * k - 1) + 256 * ByteOrZero(b, 2 * k)]

\* A variant in little-endian byte order
ToBytesLittleSigned4(value) ==
    << value % 256,
       (value \div 256) % 256,
       (value \div 65536) % 256,
       (value \div 16777216) % 256 >>

\* value.to_bytes(4, 'big', signed=True) for -2^31 <= value < 2^31
ToBytesBigSigned4(value) ==
    << (value \div 16777216) % 256,
       (value \div 65536) % 256,
       (value \div 256) % 256,
       value % 256 >>

\* s.encode('ascii') raises UnicodeEncodeError on a code point above 127
AsciiRaises(s) == \E i \in 1..Len(s) : s[i] > 127

\* s.encode('ascii'): one byte per code point
AsciiEncode(s) == [i \in 1..Len(s) |-> s[i]]

----------------------------------------------------------------------------
(* Bit flags and the PMD feature response *)

flag(byte, n) == ((byte \div (2 ^ n)) % 2) # 0

PMD_FEATURE_RESPONSE == 15

\* PolarFeatures.__init__ raises: bytes[0] / bytes[1] IndexError, or the assert
PolarFeaturesRaises(bytes) ==
    \/ Len(bytes) < 2
    \/ bytes[1] # PMD_FEATURE_RESPONSE

\* A variant that reads the flags from consecutive bits, bit 4 not skipped
PolarFeatures_Bit4(bytes) ==
    LET byte == bytes[2]
    IN  [ ecg          |-> flag(byte, 0),
          ppg          |-> flag(byte, 1),
          acceleration |-> flag(byte, 2),
          pp_interval  |-> flag(byte, 3),
          gyroscope    |-> flag(byte, 4),
          magnetometer |-> flag(byte, 5) ]

PolarFeatures(bytes) ==
    LET byte == bytes[2]
    IN  [ ecg          |-> flag(byte, 0),
          ppg          |-> flag(byte, 1),
          acceleration |-> flag(byte, 2),
          pp_interval  |-> flag(byte, 3),
          gyroscope    |-> flag(byte, 5),
          magnetometer |-> flag(byte, 6) ]

----------------------------------------------------------------------------
(* PMD ECG frames and the session log *)

\* A variant that reads the bytes as unsigned
convert_array_to_signed_int_Unsigned(data, offset, length) ==
    FromBytesLittle(Slice(data, offset, offset + length))

convert_array_to_signed_int(data, offset, length) ==
    FromBytesLittleSigned(Slice(data, offset, offset + length))

convert_to_unsigned_long(data, offset, length) ==
    FromBytesLittleWide(Slice(data, offset, offset + length))

PMD_ECG == 0
EcgHeaderLen == 10
EcgStep == 3

\* The loop test of convert_ecg_data: another sample is decoded
EcgLoopTest(samples, offset) == offset < Len(samples)

\* A variant of the loop that appends the timestamp once per frame
RECURSIVE EcgLoop_TimeOnce(_, _, _, _)
EcgLoop_TimeOnce(samples, offset, timestamp, log) ==
    IF EcgLoopTest(samples, offset)
    THEN LET ecg == FromBytesLittleSigned(Slice(samples, offset, offset + EcgStep))
         IN  EcgLoop_TimeOnce(samples, offset + EcgStep, timestamp,
                     [ data |-> Append(log.data, ecg),
                       time |-> IF offset = 0 THEN Append(log.time, timestamp)
                                ELSE log.time ])
    ELSE log

\* The while loop of convert_ecg_data, from `offset`, on the two lists
RECURSIVE EcgLoop(_, _, _, _)
EcgLoop(samples, offset, timestamp, log) ==
    IF EcgLoopTest(samples, offset)
    THEN LET ecg == convert_array_to_signed_int(samples, offset, EcgStep)
         IN  EcgLoop(samples, offset + EcgStep, timestamp,
                     [ data |-> Append(log.data, ecg),
                       time |-> Append(log.time, timestamp) ])
    ELSE log

\* data[0] raises IndexError on an empty buffer
ConvertEcgRaises(data) == Len(data) = 0

\* A variant that decodes every frame type
EcgFrameTest_AnyType(data) == TRUE

\* The frame is an ECG frame and is decoded
EcgFrameTest(data) == data[1] = PMD_ECG

\* convert_ecg_data as a function of the two lists
convert_ecg_data(data, log) ==
    IF EcgFrameTest(data)
    THEN EcgLoop(SliceFrom(data, EcgHeaderLen), 0,
                 convert_to_unsigned_long(data, 1, 8), log)
    ELSE log

----------------------------------------------------------------------------
(* GATT Heart Rate Measurement *)

GattHeartRateFlags(byte) ==
    [ wide_int              |-> flag(byte, 0),
      skin_contact_sensor   |-> flag(byte, 1),
      skin_contact_detected |-> flag(byte, 2),
      energy_expended       |-> flag(byte, 3),
      r_r_interval          |-> flag(byte, 4) ]

\* for i in range(2, len(bytes), 2): append int.from_bytes(bytes[i:i+2], 'little')
RECURSIVE RRLoop(_, _)
RRLoop(bytes, i) ==
    IF i < Len(bytes)
    THEN <<FromBytesLittle(Slice(bytes, i, i + 2))>> \o RRLoop(bytes, i + 2)
    ELSE <<>>

\* bytes[0] or bytes[1] raises IndexError
GattHeartRateRaises(bytes) == Len(bytes) < 2

GattHeartRate(bytes) ==
    [ heart_rate   |-> bytes[2],
      rr_intervals |-> RRLoop(bytes, 2),
      flags        |-> GattHeartRateFlags(bytes[1]) ]

----------------------------------------------------------------------------
(* OSC encoding and sending *)

Nulls(n) == [i \in 1..n |-> 0]

\* A variant that pads only up to the next multiple of 4
osc_string_NoFullPad(s) ==
    LET asc == AsciiEncode(s)
        padding == (4 - (Len(asc) % 4)) % 4
    IN  asc \o Nulls(padding)

osc_string(s) ==
    LET asc == AsciiEncode(s)
        padding == 4 - (Len(asc) % 4)
    IN  asc \o Nulls(padding)

TypeTagInt == <<44, 105>>                       \* ",i"
H10_HR == <<47, 104, 49, 48, 47, 104, 114>>     \* "/h10/hr"
H10_RR == <<47, 104, 49, 48, 47, 114, 114>>     \* "/h10/rr"

\* message_bytes of send_osc_int
OscIntMessage(address_pattern, value) ==
    osc_string(address_pattern) \o osc_string(TypeTagInt) \o ToBytesBigSigned4(value)

\* send_osc_int on the sequence of datagrams sent so far
send_osc_int(sent, address_pattern, value) ==
    Append(sent, OscIntMessage(address_pattern, value))

\* A variant that sends the RR-intervals last first
RECURSIVE SendRRLoop_Reversed(_, _)
SendRRLoop_Reversed(sent, rr_intervals) ==
    IF rr_intervals = <<>> THEN sent
    ELSE send_osc_int(SendRRLoop_Reversed(sent, Tail(rr_intervals)),
                      H10_RR, Head(rr_intervals))

\* for rr in hr.rr_intervals: send_osc_int('/h10/rr', rr)
RECURSIVE SendRRLoop(_, _)
SendRRLoop(sent, rr_intervals) ==
    IF rr_intervals = <<>> THEN sent
    ELSE SendRRLoop(send_osc_int(sent, H10_RR, Head(rr_intervals)), Tail(rr_intervals))

H10_FLAGS == 16

\* The test of send_hr_data_udp that guards the sending
HrSendTest(data) == data[1] = H10_FLAGS

\* The body of send_hr_data_udp after the decoding, on the datagrams sent so far
SendHr(sent, data, hr) ==
    IF HrSendTest(data)
    THEN SendRRLoop(send_osc_int(sent, H10_HR, hr.heart_rate), hr.rr_intervals)
    ELSE sent

----------------------------------------------------------------------------
(* Inputs *)

\* Every concatenation of at most n members of S
RECURSIVE Concats(_, _)
Concats(S, n) ==
    IF n = 0 THEN {<<>>}
    ELSE LET P == Concats(S, n - 1)
         IN  P \cup {p \o c : p \in P, c \in S}

\* Every sequence over S of length at most n
SeqsUpTo(S, n) == Concats({<<x>> : x \in S}, n)

\* Responses to the read of PMD_CONTROL
FeatureBuffers ==
    {<<>>, <<PMD_FEATURE_RESPONSE>>}
        \cup {<<m, b>> : m \in {PMD_FEATURE_RESPONSE, 0}, b \in 0..255}

\* The first n bytes of the endless repetition of a pattern
Cyclic(pattern, n) == [i \in 1..n |-> pattern[((i - 1) % Len(pattern)) + 1]]

\* Heart Rate Measurement notifications: flags, heart rate, then up to MaxRR
\* RR-intervals and possibly one odd byte; and buffers too short to decode
HrFlagBytes == {H10_FLAGS, 0, 17}
RRPatterns == {<<232, 3, 1, 2>>, <<1, 2, 232, 3>>}
HeartRateBuffers ==
    {<<>>, <<H10_FLAGS>>}
        \cup {<<f, 72>> \o Cyclic(p, n) :
                f \in HrFlagBytes, p \in RRPatterns, n \in 0..(2 * MaxRR + 1)}

\* PMD data notifications: type, 8-byte timestamp, one more header byte, then
\* up to MaxSamples 3-byte samples and possibly an incomplete one; and frames
\* shorter than a header
PmdTypeBytes == {PMD_ECG, 1}
TimestampChoices == {<<232, 3, 0, 0, 0, 0, 0, 0>>, <<1, 0, 0, 0, 0, 0, 0, 128>>}
SamplePatterns == {<<1, 0, 0, 254, 255, 255>>, <<5, 255, 127, 0, 0, 128>>}
PmdFrames ==
    {<<>>, <<PMD_ECG, 232, 3>>}
        \cup {<<ty>> \o ts \o <<0>> \o Cyclic(p, n) :
                ty \in PmdTypeBytes, ts \in TimestampChoices,
                p \in SamplePatterns, n \in 0..(EcgStep * MaxSamples + 2)}

\* Strings given to osc_string, over 'a' and a non-ASCII code point
OscStrings == SeqsUpTo({97, 233}, MaxStrLen)

\* Address patterns and values given to send_osc_int
OscAddresses == {<<47, 97>>, <<47, 97, 97>>, <<47, 97, 97, 97>>, H10_HR, <<47, 233>>}
OscValues == {72, -1, 2147483647, -2147483647 - 1}

----------------------------------------------------------------------------
(* The program: info() and the two notification callbacks *)

None == [none |-> TRUE]

Called(fn, data, value, raised) ==
    [fn |-> fn, data |-> data, value |-> value, raised |-> raised]

Init ==
    /\ ecg_session_data = <<>>
    /\ ecg_session_time = <<>>
    /\ osc_sent = <<>>
    /\ delivered = 0
    /\ pc = "connected"
    /\ call = Called("info", <<>>, 0, FALSE)
    /\ result = None

\* att_read = read_gatt_char(PMD_CONTROL); PolarFeatures(att_read); then the
\* two start_notify.  An exception leaves info() and ends the script.
ReadFeatures ==
    /\ pc = "connected"
    /\ \E att_read \in FeatureBuffers :
        /\ call' = Called("PolarFeatures", att_read, 0, PolarFeaturesRaises(att_read))
        /\ IF PolarFeaturesRaises(att_read)
           THEN result' = None /\ pc' = "failed"
           ELSE result' = PolarFeatures(att_read) /\ pc' = "notifying"
    /\ UNCHANGED <<ecg_session_data, ecg_session_time, osc_sent, delivered>>

\* A notification of PMD_DATA: convert_ecg_data(sender, data)
ConvertEcgData ==
    /\ pc = "notifying"
    /\ delivered < MaxNotifications
    /\ \E data \in PmdFrames :
        LET log == IF ConvertEcgRaises(data)
                   THEN [data |-> ecg_session_data, time |-> ecg_session_time]
                   ELSE convert_ecg_data(data, [data |-> ecg_session_data,
                                                time |-> ecg_session_time])
        IN  /\ call' = Called("convert_ecg_data", data, 0, ConvertEcgRaises(data))
            /\ ecg_session_data' = log.data
            /\ ecg_session_time' = log.time
    /\ result' = None
    /\ delivered' = delivered + 1
    /\ UNCHANGED <<osc_sent, pc>>

\* A notification of HR_UUID: send_hr_data_udp(sender, data)
SendHrDataUdp ==
    /\ pc = "notifying"
    /\ delivered < MaxNotifications
    /\ \E data \in HeartRateBuffers :
        /\ call' = Called("send_hr_data_udp", data, 0, GattHeartRateRaises(data))
        /\ IF GattHeartRateRaises(data)
           THEN result' = None /\ osc_sent' = osc_sent
           ELSE /\ result' = GattHeartRate(data)
                /\ osc_sent' = SendHr(osc_sent, data, GattHeartRate(data))
    /\ delivered' = delivered + 1
    /\ UNCHANGED <<ecg_session_data, ecg_session_time, pc>>

\* stop_notify of both characteristics and disconnect, after the sleep
StopNotify ==
    /\ pc = "notifying"
    /\ pc' = "stopped"
    /\ UNCHANGED <<ecg_session_data, ecg_session_time, osc_sent, delivered, call, result>>

Next == ReadFeatures \/ ConvertEcgData \/ SendHrDataUdp \/ StopNotify

Spec == Init /\ [][Next]_vars

----------------------------------------------------------------------------
(* The OSC encoder called on its own *)

CallOscString ==
    /\ \E s \in OscStrings :
        /\ call' = Called("osc_string", s, 0, AsciiRaises(s))
        /\ result' = IF AsciiRaises(s) THEN None ELSE [bytes |-> osc_string(s)]
    /\ UNCHANGED <<ecg_session_data, ecg_session_time, osc_sent, delivered, pc>>

CallSendOscInt ==
    /\ Len(osc_sent) < MaxSent
    /\ \E address_pattern \in OscAddresses, value \in OscValues :
        /\ call' = Called("send_osc_int", address_pattern, value, AsciiRaises(address_pattern))
        /\ osc_sent' = IF AsciiRaises(address_pattern) THEN osc_sent
                       ELSE send_osc_int(osc_sent, address_pattern, value)
    /\ result' = None
    /\ UNCHANGED <<ecg_session_data, ecg_session_time, delivered, pc>>

NextOsc == CallOscString \/ CallSendOscInt

SpecOsc == Init /\ [][NextOsc]_vars

----------------------------------------------------------------------------
(* Vocabulary of the properties, independent of the decoders above *)

Bit(byte, n) == (byte \div (2 ^ n)) % 2

B2N(b) == IF b THEN 1 ELSE 0

IsPrefix(s, t) == Len(s) <= Len(t) /\ SubSeq(t, 1, Len(s)) = s

\* What a step appended to a list
Appended(old, new) == SubSeq(new, Len(old) + 1, Len(new))

\* The step is the delivery of a notification to the named callback
Delivers(fn) == delivered' = delivered + 1 /\ call'.fn = fn

\* An OSC message read back: the address up to its first null, the int32 argument
RECURSIVE UpToNull(_)
UpToNull(b) ==
    IF b = <<>> \/ Head(b) = 0 THEN <<>> ELSE <<Head(b)>> \o UpToNull(Tail(b))

OscAddress(msg) == UpToNull(msg)

BigSigned4(b) ==
    (IF b[1] >= 128 THEN b[1] - 256 ELSE b[1]) * 16777216
        + b[2] * 65536 + b[3] * 256 + b[4]

OscValue(msg) == BigSigned4(SubSeq(msg, Len(msg) - 3, Len(msg)))

\* The signed little-endian value of three bytes
SignedLE3(b) ==
    LET u == b[1] + 256 * b[2] + 65536 * b[3]
    IN  IF u >= 8388608 THEN u - 16777216 ELSE u

\* t is the unsigned little-endian value of bytes 1..8 of the frame
IsTimestampOf(t, data) ==
    /\ Len(t) = 4
    /\ \A k \in 1..4 : t[k] % 256 = data[2 * k] /\ t[k] \div 256 = data[2 * k + 1]

\* The messages a handled heart-rate notification is to emit
EmitsHrThenRRs(emitted, hr) ==
    /\ Len(emitted) = 1 + Len(hr.rr_intervals)
    /\ OscAddress(emitted[1]) = H10_HR
    /\ OscValue(emitted[1]) = hr.heart_rate
    /\ \A k \in 1..Len(hr.rr_intervals) :
        /\ OscAddress(emitted[k + 1]) = H10_RR
        /\ OscValue(emitted[k + 1]) = hr.rr_intervals[k]

----------------------------------------------------------------------------
(* C1 *)

\* C1 as claimed: every heart-rate notification handled by send_hr_data_udp
\* (here: every one long enough to be decoded) emits one /h10/hr message with
\* the decoded heart rate and then one /h10/rr message per decoded RR-interval,
\* in order.
C1_EveryNotificationForwarded ==
    [][(Delivers("send_hr_data_udp") /\ ~call'.raised) =>
        /\ IsPrefix(osc_sent, osc_sent')
        /\ EmitsHrThenRRs(Appended(osc_sent, osc_sent'), result')]_vars

\* C1 amended: a heart-rate notification of at least two bytes whose flags byte
\* is 0x10 emits one /h10/hr message with the decoded heart rate and then one
\* /h10/rr message per decoded RR-interval, in order; any other heart-rate
\* notification emits nothing.
C1_H10NotificationForwarded ==
    [][Delivers("send_hr_data_udp") =>
        /\ IsPrefix(osc_sent, osc_sent')
        /\ IF Len(call'.data) >= 2 /\ call'.data[1] = 16
           THEN /\ ~call'.raised
                /\ EmitsHrThenRRs(Appended(osc_sent, osc_sent'), result')
           ELSE osc_sent' = osc_sent]_vars

C1_Witness ==
    /\ call.fn = "send_hr_data_udp"
    /\ ~call.raised
    /\ call.data[1] = 16
    /\ Len(result.rr_intervals) >= 2
    /\ result.rr_intervals[1] # result.rr_intervals[2]
    /\ Len(osc_sent) >= 3

----------------------------------------------------------------------------
(* C2 *)

\* C2: the session log is append-only: each step leaves the former contents of
\* both lists as a prefix of the new ones, and a heart-rate notification or a
\* PMD frame whose first byte is not 0x00 leaves both lists unchanged.
C2_LogAppendOnly ==
    [][/\ IsPrefix(ecg_session_data, ecg_session_data')
       /\ IsPrefix(ecg_session_time, ecg_session_time')
       /\ (\/ Delivers("send_hr_data_udp")
           \/ (Delivers("convert_ecg_data") /\ Len(call'.data) > 0 /\ call'.data[1] # 0))
            => UNCHANGED <<ecg_session_data, ecg_session_time>>]_vars

C2_Witness ==
    /\ call.fn = "convert_ecg_data"
    /\ Len(call.data) > 10
    /\ call.data[1] # 0
    /\ Len(ecg_session_data) > 0

----------------------------------------------------------------------------
(* C3 *)

\* C3: a PMD frame with first byte 0x00 and exactly N complete 3-byte samples
\* after its 10-byte header appends exactly N entries, in frame order, each the
\* signed little-endian value of its 3 bytes, every one with the timestamp that
\* is the unsigned little-endian value of bytes 1..8.
C3_CompleteFrameDecoded ==
    [][(/\ Delivers("convert_ecg_data")
        /\ Len(call'.data) >= 10
        /\ call'.data[1] = 0
        /\ (Len(call'.data) - 10) % 3 = 0)
        => LET data == call'.data
               N == (Len(data) - 10) \div 3
               newData == Appended(ecg_session_data, ecg_session_data')
               newTime == Appended(ecg_session_time, ecg_session_time')
           IN  /\ IsPrefix(ecg_session_data, ecg_session_data')
               /\ IsPrefix(ecg_session_time, ecg_session_time')
               /\ Len(newData) = N
               /\ Len(newTime) = N
               /\ \A k \in 1..N :
                    /\ newData[k] = SignedLE3(SubSeq(data, 10 + 3 * k - 2, 10 + 3 * k))
                    /\ IsTimestampOf(newTime[k], data)]_vars

C3_Witness ==
    /\ call.fn = "convert_ecg_data"
    /\ Len(call.data) = 16
    /\ call.data[1] = 0
    /\ Len(ecg_session_data) >= 2
    /\ ecg_session_data[Len(ecg_session_data)] < 0
    /\ ecg_session_time[Len(ecg_session_time)][4] > 0

----------------------------------------------------------------------------
(* C4 *)

\* C4 as claimed: a PMD ECG frame whose sample region has a length L that is
\* not a multiple of 3 yields exactly floor(L/3) samples, each decoded from 3
\* complete bytes; the trailing 1 or 2 bytes produce no sample.
C4_TruncatedFrameFloor ==
    [][(/\ Delivers("convert_ecg_data")
        /\ Len(call'.data) > 10
        /\ call'.data[1] = 0
        /\ (Len(call'.data) - 10) % 3 # 0)
        => LET data == call'.data
               N == (Len(data) - 10) \div 3
               newData == Appended(ecg_session_data, ecg_session_data')
           IN  /\ ~call'.raised
               /\ Len(newData) = N
               /\ \A k \in 1..N :
                    newData[k] = SignedLE3(SubSeq(data, 10 + 3 * k - 2, 10 + 3 * k))]_vars

----------------------------------------------------------------------------
(* C5 *)

\* C5 as claimed: with wide_int set the heart rate is the 2-byte little-endian
\* value at offsets 1..2 and the next field starts at offset 3; with it clear
\* the heart rate is the byte at offset 1 and the next field starts at offset 2.
C5_WideHeartRate ==
    (call.fn = "send_hr_data_udp" /\ ~call.raised) =>
        LET data == call.data
            next == IF Bit(data[1], 0) = 1 THEN 3 ELSE 2
        IN  /\ (Bit(data[1], 0) = 0 => result.heart_rate = data[2])
            /\ (Bit(data[1], 0) = 1 /\ Len(data) >= 3
                    => result.heart_rate = data[2] + 256 * data[3])
            /\ (Bit(data[1], 4) = 1 /\ Len(data) >= next + 2
                    => /\ Len(result.rr_intervals) >= 1
                       /\ result.rr_intervals[1] = data[next + 1] + 256 * data[next + 2])

----------------------------------------------------------------------------
(* C6 *)

\* C6 as claimed: with the r_r_interval flag clear the decoded rr_intervals are
\* empty whatever follows the heart rate; with it set they are the consecutive
\* 2-byte little-endian values from the next-field offset to the buffer's end.
C6_RRIntervalsByFlag ==
    (call.fn = "send_hr_data_udp" /\ ~call.raised) =>
        LET data == call.data
            next == IF Bit(data[1], 0) = 1 THEN 3 ELSE 2
            count == IF Len(data) > next THEN (Len(data) - next) \div 2 ELSE 0
        IN  IF Bit(data[1], 4) = 0
            THEN result.rr_intervals = <<>>
            ELSE /\ Len(result.rr_intervals) = count
                 /\ \A k \in 1..count :
                      result.rr_intervals[k] =
                          data[next + 2 * k - 1] + 256 * data[next + 2 * k]

----------------------------------------------------------------------------
(* C7 *)

\* C7: osc_string(s) of an ASCII string is the bytes of s followed by k nulls,
\* 1 <= k <= 4, with len(s) + k a multiple of 4; a string whose length is
\* already a multiple of 4 gets exactly 4 nulls.
C7_OscStringPadding ==
    (call.fn = "osc_string" /\ ~call.raised) =>
        LET s == call.data
            b == result.bytes
            k == Len(b) - Len(s)
        IN  /\ k \in 1..4
            /\ Len(b) % 4 = 0
            /\ SubSeq(b, 1, Len(s)) = s
            /\ \A i \in (Len(s) + 1)..Len(b) : b[i] = 0
            /\ (Len(s) % 4 = 0 => k = 4)

C7_Witness ==
    /\ call.fn = "osc_string"
    /\ ~call.raised
    /\ Len(call.data) = 4
    /\ Len(result.bytes) = 8

----------------------------------------------------------------------------
(* C8 *)

\* C8: the message built by send_osc_int for an ASCII address pattern and a
\* signed 32-bit value is the padded address, then ",i" padded to 4 bytes,
\* then the value as 4 bytes big-endian two's complement; its length is a
\* multiple of 4.
C8_OscIntMessage ==
    (call.fn = "send_osc_int" /\ ~call.raised) =>
        /\ Len(osc_sent) >= 1
        /\ LET msg == osc_sent[Len(osc_sent)]
               a == call.data
               pad == Len(a) + 4 - (Len(a) % 4)
           IN  /\ Len(msg) = pad + 8
               /\ Len(msg) % 4 = 0
               /\ SubSeq(msg, 1, Len(a)) = a
               /\ \A i \in (Len(a) + 1)..pad : msg[i] = 0
               /\ SubSeq(msg, pad + 1, pad + 4) = <<44, 105, 0, 0>>
               /\ \A i \in (pad + 5)..(pad + 8) : msg[i] \in 0..255
               /\ BigSigned4(SubSeq(msg, pad + 5, pad + 8)) = call.value

C8_Witness ==
    /\ call.fn = "send_osc_int"
    /\ ~call.raised
    /\ call.value < -1
    /\ call.data = H10_HR
    /\ Len(osc_sent) >= 1
    /\ Len(osc_sent[Len(osc_sent)]) = 16

----------------------------------------------------------------------------
(* C9 *)

\* C9: for a feature response whose first byte is 0x0F, the bitfield rebuilt
\* from the six decoded flags at bits {0,1,2,3,5,6} is byte[1] on those bits;
\* bits 4 and 7 of byte[1] affect no flag.
C9_FeatureBitsRoundTrip ==
    (call.fn = "PolarFeatures" /\ Len(call.data) >= 2 /\ call.data[1] = 15) =>
        /\ ~call.raised
        /\ LET byte == call.data[2]
           IN  B2N(result.ecg) + 2 * B2N(result.ppg) + 4 * B2N(result.acceleration)
                    + 8 * B2N(result.pp_interval) + 32 * B2N(result.gyroscope)
                    + 64 * B2N(result.magnetometer)
                 = byte - 16 * Bit(byte, 4) - 128 * Bit(byte, 7)

C9_Witness ==
    /\ call.fn = "PolarFeatures"
    /\ ~call.raised
    /\ call.data[2] = 176
    /\ result.gyroscope
    /\ ~result.magnetometer

----------------------------------------------------------------------------
(* C10 *)

\* C10: the two session lists always have the same length, and each step of
\* convert_ecg_data appends to ecg_session_time, at every index where it
\* appends a sample, the timestamp of the frame the sample was decoded from.
C10_SamplesPairedWithTimestamps ==
    /\ [](Len(ecg_session_data) = Len(ecg_session_time))
    /\ [][/\ Len(Appended(ecg_session_data, ecg_session_data'))
                = Len(Appended(ecg_session_time, ecg_session_time'))
          /\ \A i \in (Len(ecg_session_time) + 1)..Len(ecg_session_time') :
                /\ call'.fn = "convert_ecg_data"
                /\ Len(call'.data) >= 9
                /\ IsTimestampOf(ecg_session_time'[i], call'.data)]_vars

C10_Witness ==
    /\ Len(ecg_session_time) >= 3
    /\ Len(ecg_session_data) = Len(ecg_session_time)
    /\ ecg_session_time[1] # ecg_session_time[Len(ecg_session_time)]

====
